---- MODULE Spec2Model ----
(***************************************************************************)
(* A state-machine model of the OS.js Ace editor application               *)
(* (src/index.js): the glue between the host's window / process /         *)
(* basic-application helper / virtual filesystem and the embedded editor   *)
(* widget.  One action per event handler; asynchronous filesystem calls    *)
(* are requests in flight that complete in any order.                      *)
(***************************************************************************)
EXTENDS Integers, Sequences, FiniteSets, Bags, TLC

\* ------------------------------------------------------------------ bounds
\* Longest buffer / file text the model enumerates.
MaxLen == 1
\* Most filesystem requests (reads plus writes) the model lets be in flight.
MaxInFlight == 2

\* ------------------------------------------------------------------ values
\* proc.args.file unset (null), as a descriptor of no file.
None == [path |-> [name |-> "", ext |-> ""], mime |-> "", isFile |-> FALSE]
\* No basic-application event.
NoEvent == "none"
NL == "\n"
Chars == {"x", NL}
Texts == UNION {[1..n -> Chars] : n \in 0..MaxLen}

\* File paths as <base name, extension>.
Paths == {[name |-> "a", ext |-> "py"], [name |-> "b", ext |-> "js"]}
\* File descriptors handed over by the dialogs, the launch arguments and drops.
Files == {[path |-> p, mime |-> "text/plain", isFile |-> TRUE] : p \in Paths}
\* What a drop on the window may carry: a file, a directory, a file without
\* a mime type, a file of a type the application does not list.
DropData ==
    Files \cup
    { [path |-> [name |-> "a", ext |-> "py"], mime |-> "text/plain", isFile |-> FALSE],
      [path |-> [name |-> "a", ext |-> "py"], mime |-> "",           isFile |-> TRUE],
      [path |-> [name |-> "a", ext |-> "py"], mime |-> "image/png",  isFile |-> TRUE] }
\* proc.metadata.mimes: the mime types the application accepts.
mimes == {"text/plain"}

TextMode == "ace/mode/text"
\* modelist.getModeForPath(path).mode: the grammar chosen by the extension,
\* the plain-text grammar when none matches.
getModeForPath(path) ==
    CASE path.ext = "py" -> "ace/mode/python"
      [] path.ext = "js" -> "ace/mode/javascript"
      [] OTHER -> TextMode

\* ------------------------------------------------------------------ widget text
Origin == [row |-> 0, column |-> 0]
\* editor.session.getLength(): the number of lines of the buffer.
getLength(t) == 1 + Cardinality({i \in 1..Len(t) : t[i] = NL})
\* The (row, column) of the position after the first off characters of t.
PosOf(t, off) ==
    LET nls == {i \in 1..off : t[i] = NL}
        lastNl == IF nls = {} THEN 0 ELSE CHOOSE i \in nls : \A j \in nls : j <= i
    IN [row |-> Cardinality(nls), column |-> off - lastNl]
\* The positions the cursor can take in t.
Positions(t) == {PosOf(t, off) : off \in 0..Len(t)}
\* The character offset of cursor position pos in t.
OffsetOf(t, pos) == CHOOSE off \in 0..Len(t) : PosOf(t, off) = pos
\* Where editor.setValue leaves the cursor: it selects all, cursor at the end.
EndPos(t) == PosOf(t, Len(t))
\* t with character c inserted at offset off.
InsertAt(t, off, c) == SubSeq(t, 1, off) \o <<c>> \o SubSeq(t, off + 1, Len(t))

VARIABLES
    editor,         \* TRUE once `editor = ace.edit(el)` has run
    text,           \* the widget's buffer (editor.getValue())
    cursor,         \* the widget's cursor, [row, column]
    wmode,          \* the widget's syntax mode (editor.session.getMode().$id)
    state,          \* the hyperapp state: theme, mode, row, column, lines
    file,           \* proc.args.file, None when unset
    reads,          \* vfs.readfile calls in flight (a bag: they settle in any order)
    writes,         \* vfs.writefile calls in flight (a bag)
    destroyed,      \* the process is destroyed
    basicDestroyed, \* the basic-application helper is destroyed
    winDestroyed,   \* the main window is destroyed
    constructs,     \* history: how many times ace.edit ran
    inits,          \* history: how many times basic.init ran
    failed,         \* history: some read was rejected
    lastOpened,     \* history: the item of the latest load that started a read
    textOf,         \* history: the item whose read filled the buffer, None after New
    last,           \* history: the watched handler that ran last and what it saw
    watch           \* which history a behaviour records (fixed at the start)

vars == <<editor, text, cursor, wmode, state, file, reads, writes, destroyed,
          basicDestroyed, winDestroyed, constructs, inits, failed,
          lastOpened, textOf, last, watch>>

\* ------------------------------------------------------------------ history
\* What the handler that ran last did: op names the handler, event the
\* basic-application event it delivered (NoEvent when none), item the file
\* descriptor it carried, txt the text a completed read returned (for a
\* rejected read: the buffer when its load began), threw whether it raised a
\* TypeError on the unset `editor`, cursorEv whether the widget emitted
\* changeCursor during it.
\* Only the handlers named in watch are recorded; a run of any other leaves
\* Idle.  The tags "before" and "race" switch on the other histories: the
\* buffer each read's load began with; whether a read was rejected, which
\* file was opened last and which file's text the buffer holds.
Idle == [op |-> "idle", event |-> NoEvent, item |-> None, txt |-> <<>>,
         threw |-> FALSE, cursorEv |-> FALSE]

Note(op, event, item, txt, threw, cursorEv) ==
    /\ last' = IF op \in watch
               THEN [op |-> op, event |-> event, item |-> item, txt |-> txt,
                     threw |-> threw, cursorEv |-> cursorEv]
               ELSE Idle
    /\ UNCHANGED watch

Handlers == {"oncreate", "resized", "blur", "focus", "drop", "menuNew", "menuOpen",
             "menuSave", "menuSaveAs", "menuQuit", "winDestroy", "readResolved",
             "readRejected", "writeSettled", "typeChar", "moveCursor"}

InFlight == BagCardinality(reads) + BagCardinality(writes)
\* Model bound on the requests in flight (the code has no such limit).
CanStart == InFlight < MaxInFlight
\* Bag b with one more / one fewer copy of request r.
Started(b, r) == b (+) SetToBag({r})
Settled(b, r) == b (-) SetToBag({r})

\* ------------------------------------------------------------------ hyperapp
\* A setStatus that crosses row and column.
setStatusSwapped(st, s) ==
    [st EXCEPT !.row = s.column, !.column = s.row, !.lines = s.lines, !.mode = s.mode]

\* setStatus: merges row, column, lines and mode into the state.
setStatus(st, s) ==
    [st EXCEPT !.row = s.row, !.column = s.column, !.lines = s.lines, !.mode = s.mode]

\* The changeCursor listener: reads the widget's live values, calls setStatus.
changeCursor(st, t, cur, m) ==
    setStatus(st, [row |-> cur.row, column |-> cur.column,
                   lines |-> getLength(t), mode |-> m])

\* ------------------------------------------------------------------ widget
\* editor.setValue(contents) replaces the buffer and selects all: the cursor
\* ends at the end of the text.  The selection emits changeCursor when the
\* cursor moves (to the origin when the old text is removed, to the end when
\* the new text is inserted); the last emission sees the final widget state.
CursorMoves(contents) == cursor # Origin \/ EndPos(contents) # Origin

\* A setText that inserts at the end of the buffer instead of replacing it.
setTextAppends(contents) ==
    /\ text' = text \o contents
    /\ cursor' = EndPos(text \o contents)
    /\ state' = IF CursorMoves(contents)
                THEN changeCursor(state, text \o contents, EndPos(text \o contents), wmode)
                ELSE state

\* setText = contents => editor.setValue(contents), on a constructed editor.
setText(contents) ==
    /\ text' = contents
    /\ cursor' = EndPos(contents)
    /\ state' = IF CursorMoves(contents)
                THEN changeCursor(state, contents, EndPos(contents), wmode)
                ELSE state

\* ------------------------------------------------------------------ actions of ha
\* load(item), run with `editor` bound (ed) or not.  Unbound, the call
\* editor.getSession() raises and nothing else happens.
load(ed, item) ==
    IF ed
    THEN /\ CanStart
         /\ wmode' = getModeForPath(item.path)
         /\ reads' = Started(reads, [item |-> item,
                                   before |-> IF "before" \in watch THEN text ELSE <<>>])
         /\ lastOpened' = IF "race" \in watch THEN item ELSE None
    ELSE UNCHANGED <<wmode, reads, lastOpened>>

\* A save without the test of proc.args.file.
saveUnguarded(f) ==
    /\ CanStart
    /\ writes' = Started(writes, [file |-> f, data |-> text])

\* A save that writes an empty payload instead of the buffer.
saveEmptyPayload(f) ==
    IF f # None
    THEN /\ CanStart
         /\ writes' = Started(writes, [file |-> f, data |-> <<>>])
    ELSE UNCHANGED writes

\* save(), with f the value of proc.args.file when it runs.
save(f) ==
    IF f # None
    THEN IF editor
         THEN /\ CanStart
              /\ writes' = Started(writes, [file |-> f, data |-> text])
         ELSE UNCHANGED writes
    ELSE UNCHANGED writes

\* ------------------------------------------------------------------ lifecycle
\* A process whose 'destroy' handler was never registered.
procOnDestroyMissing == UNCHANGED basicDestroyed

\* proc.on('destroy', () => basic.destroy())
procOnDestroy == basicDestroyed' = TRUE

\* proc.destroy(): marks the process destroyed, emits 'destroy' and
\* destroys its windows.
procDestroy ==
    /\ destroyed' = TRUE
    /\ procOnDestroy
    /\ winDestroyed' = TRUE

InitialState == [theme |-> "ace/theme/monokai", mode |-> "none",
                 row |-> 0, column |-> 0, lines |-> 0]

\* The state when createProcess returns: handlers registered, the first
\* render of the view (and so the editor's construction) still pending.
InitWatching(w) ==
    /\ watch = w
    /\ editor = FALSE
    /\ text = <<>>
    /\ cursor = Origin
    /\ wmode = TextMode
    /\ state = InitialState
    /\ file \in Files \cup {None}
    /\ reads = EmptyBag
    /\ writes = EmptyBag
    /\ destroyed = FALSE
    /\ basicDestroyed = FALSE
    /\ winDestroyed = FALSE
    /\ constructs = 0
    /\ inits = 0
    /\ failed = FALSE
    /\ lastOpened = None
    /\ textOf = None
    /\ last = Idle

\* Every history recorded.
Init == InitWatching(Handlers \cup {"before", "race"})

\* oncreate of the editor container (the view's first render).  A fresh
\* widget has an empty buffer, the plain-text mode and the cursor at the
\* origin.  basic.init() opens proc.args.file when it is set and creates a
\* new file otherwise.
oncreate ==
    IF ~editor
    THEN /\ editor' = TRUE
         /\ constructs' = constructs + 1
         /\ inits' = inits + 1
         /\ IF file # None
            THEN /\ load(TRUE, file)
                 /\ Note("oncreate", "open-file", file, <<>>, FALSE, FALSE)
                 /\ UNCHANGED <<text, cursor, state, file, textOf>>
            ELSE /\ setText(<<>>)
                 /\ file' = None
                 /\ textOf' = None
                 /\ Note("oncreate", "new-file", None, <<>>, FALSE, CursorMoves(<<>>))
                 /\ UNCHANGED <<wmode, reads, lastOpened>>
         /\ UNCHANGED <<writes, destroyed, basicDestroyed, winDestroyed, failed>>
    ELSE UNCHANGED vars

\* win.on('resized' | 'blur' | 'focus'): a call on `editor`, which raises
\* while the editor is unset and otherwise changes nothing modelled here.
WidgetCall(op) ==
    /\ ~winDestroyed
    /\ Note(op, NoEvent, None, <<>>, ~editor, FALSE)
    /\ UNCHANGED <<editor, text, cursor, wmode, state, file, reads, writes,
                   destroyed, basicDestroyed, winDestroyed, constructs, inits, failed,
                   lastOpened, textOf>>

resized == WidgetCall("resized")
blur == WidgetCall("blur")
focus == WidgetCall("focus")

\* win.on('drop'): a dropped file of an accepted mime type is opened through
\* basic.open, which sets proc.args.file and emits open-file.
drop(data) ==
    /\ ~winDestroyed
    /\ IF data.isFile /\ data.mime # "" /\ data.mime \in mimes
       THEN /\ file' = data
            /\ load(editor, data)
            /\ Note("drop", "open-file", data, <<>>, ~editor, FALSE)
       ELSE /\ Note("drop", NoEvent, None, <<>>, FALSE, FALSE)
            /\ UNCHANGED <<file, wmode, reads, lastOpened>>
    /\ UNCHANGED <<editor, text, cursor, state, writes, destroyed, basicDestroyed,
                   winDestroyed, constructs, inits, failed,
                   textOf>>

\* The file menu exists once the view is rendered and until the window goes.
MenuShown == editor /\ ~winDestroyed

\* menuNew: basic.createNew() unsets proc.args.file and emits new-file,
\* whose handler is setText('').
menuNew ==
    /\ MenuShown
    /\ file' = None
    /\ setText(<<>>)
    /\ textOf' = None
    /\ Note("menuNew", "new-file", None, <<>>, FALSE, CursorMoves(<<>>))
    /\ UNCHANGED <<editor, wmode, reads, writes, destroyed, basicDestroyed,
                   winDestroyed, constructs, inits, failed,
                   lastOpened>>

\* menuOpen: the open dialog, answered with item, calls basic.open(item).
menuOpen(item) ==
    /\ MenuShown
    /\ file' = item
    /\ load(editor, item)
    /\ Note("menuOpen", "open-file", item, <<>>, FALSE, FALSE)
    /\ UNCHANGED <<editor, text, cursor, state, writes, destroyed, basicDestroyed,
                   winDestroyed, constructs, inits, failed,
                   textOf>>

\* menuSave: actions.save().  The menu flags the Save entry disabled while
\* proc.args.file is unset (createFileMenu), but the action stays bound to
\* it and save makes its own test.
menuSave ==
    /\ MenuShown
    /\ save(file)
    /\ Note("menuSave", NoEvent, None, <<>>, FALSE, FALSE)
    /\ UNCHANGED <<editor, text, cursor, wmode, state, file, reads, destroyed,
                   basicDestroyed, winDestroyed, constructs, inits, failed,
                   lastOpened, textOf>>

\* menuSaveAs: the save dialog, answered with item, calls basic.save(item),
\* which sets proc.args.file and emits save-file, handled by ha.save.
menuSaveAs(item) ==
    /\ MenuShown
    /\ file' = item
    /\ save(item)
    /\ Note("menuSaveAs", "save-file", item, <<>>, FALSE, FALSE)
    /\ UNCHANGED <<editor, text, cursor, wmode, state, reads, destroyed,
                   basicDestroyed, winDestroyed, constructs, inits, failed,
                   lastOpened, textOf>>

\* menuQuit: proc.destroy().
menuQuit ==
    /\ MenuShown
    /\ procDestroy
    /\ Note("menuQuit", NoEvent, None, <<>>, FALSE, FALSE)
    /\ UNCHANGED <<editor, text, cursor, wmode, state, file, reads, writes,
                   constructs, inits, failed,
                   lastOpened, textOf>>

\* The main window's 'destroy' event: proc.destroy().
winOnDestroy ==
    /\ ~winDestroyed
    /\ procDestroy
    /\ Note("winDestroy", NoEvent, None, <<>>, FALSE, FALSE)
    /\ UNCHANGED <<editor, text, cursor, wmode, state, file, reads, writes,
                   constructs, inits, failed,
                   lastOpened, textOf>>

\* vfs.readfile(item) resolves with contents: .then(setText).
readResolved(r, contents) ==
    /\ BagIn(r, reads)
    /\ reads' = Settled(reads, r)
    /\ setText(contents)
    /\ textOf' = IF "race" \in watch THEN r.item ELSE None
    /\ Note("readResolved", NoEvent, r.item, contents, FALSE, CursorMoves(contents))
    /\ UNCHANGED <<editor, wmode, file, writes, destroyed, basicDestroyed,
                   winDestroyed, constructs, inits, failed,
                   lastOpened>>

\* A rejection handler that also empties the buffer.
readRejectedClears(r) ==
    /\ BagIn(r, reads)
    /\ reads' = Settled(reads, r)
    /\ setText(<<>>)
    /\ failed' = (failed \/ "race" \in watch)
    /\ Note("readRejected", NoEvent, None, r.before, FALSE, CursorMoves(<<>>))
    /\ UNCHANGED <<editor, wmode, file, writes, destroyed, basicDestroyed,
                   winDestroyed, constructs, inits, lastOpened, textOf>>

\* vfs.readfile(item) rejects: .catch(error => console.error(error)).
readRejected(r) ==
    /\ BagIn(r, reads)
    /\ reads' = Settled(reads, r)
    /\ failed' = (failed \/ "race" \in watch)
    /\ Note("readRejected", NoEvent, None, r.before, FALSE, FALSE)
    /\ UNCHANGED <<editor, text, cursor, wmode, state, file, writes, destroyed,
                   basicDestroyed, winDestroyed, constructs, inits,
                   lastOpened, textOf>>

\* vfs.writefile settles; its promise is not used.
writeSettled(w) ==
    /\ BagIn(w, writes)
    /\ writes' = Settled(writes, w)
    /\ Note("writeSettled", NoEvent, None, <<>>, FALSE, FALSE)
    /\ UNCHANGED <<editor, text, cursor, wmode, state, file, reads, destroyed,
                   basicDestroyed, winDestroyed, constructs, inits, failed,
                   lastOpened, textOf>>

\* The user works in the widget while the window is there.
WidgetShown == editor /\ ~winDestroyed

\* The user types character c at the cursor: the cursor advances and the
\* changeCursor listener runs.
typeChar(c) ==
    /\ WidgetShown
    /\ Len(text) < MaxLen
    /\ LET off == OffsetOf(text, cursor)
           t == InsertAt(text, off, c)
           cur == PosOf(t, off + 1)
       IN /\ text' = t
          /\ cursor' = cur
          /\ state' = changeCursor(state, t, cur, wmode)
    /\ Note("typeChar", NoEvent, None, <<>>, FALSE, TRUE)
    /\ UNCHANGED <<editor, wmode, file, reads, writes, destroyed, basicDestroyed,
                   winDestroyed, constructs, inits, failed,
                   lastOpened, textOf>>

\* The user moves the cursor to another position: the listener runs.
moveCursor(pos) ==
    /\ WidgetShown
    /\ pos \in Positions(text) \ {cursor}
    /\ cursor' = pos
    /\ state' = changeCursor(state, text, pos, wmode)
    /\ Note("moveCursor", NoEvent, None, <<>>, FALSE, TRUE)
    /\ UNCHANGED <<editor, text, wmode, file, reads, writes, destroyed,
                   basicDestroyed, winDestroyed, constructs, inits, failed,
                   lastOpened, textOf>>

AllPositions == UNION {Positions(t) : t \in Texts}

Next ==
    \/ oncreate
    \/ resized
    \/ blur
    \/ focus
    \/ \E data \in DropData : drop(data)
    \/ menuNew
    \/ \E item \in Files : menuOpen(item)
    \/ menuSave
    \/ \E item \in Files : menuSaveAs(item)
    \/ menuQuit
    \/ winOnDestroy
    \/ \E r \in BagToSet(reads), contents \in Texts : readResolved(r, contents)
    \/ \E r \in BagToSet(reads) : readRejected(r)
    \/ \E w \in BagToSet(writes) : writeSettled(w)
    \/ \E c \in Chars : typeChar(c)
    \/ \E pos \in AllPositions : moveCursor(pos)

Spec == Init /\ [][Next]_vars

\* The same program, recording only the history a group of properties reads.
SpecSave == InitWatching({"menuSave", "menuSaveAs"}) /\ [][Next]_vars
SpecCursor == InitWatching({"oncreate", "menuNew", "readResolved", "typeChar",
                            "moveCursor"}) /\ [][Next]_vars
SpecRead == InitWatching({"readRejected", "before"}) /\ [][Next]_vars
SpecLife == InitWatching({"menuQuit", "winDestroy"}) /\ [][Next]_vars

\* ------------------------------------------------------------------ properties
\* The widget's live status values, and the ones the status bar shows.
Live == [row |-> cursor.row, column |-> cursor.column,
         lines |-> getLength(text), mode |-> wmode]
Shown(st) == [row |-> st.row, column |-> st.column, lines |-> st.lines, mode |-> st.mode]
Saves == {"menuSave", "menuSaveAs"}

\* C1: every open-file event carrying an item with path P sets the widget's
\* syntax mode to getModeForPath(P), and a read that succeeds sets the buffer
\* to exactly the text it returned.
C1_OpenSetsModeAndText ==
    [][ /\ last'.event = "open-file" => wmode' = getModeForPath(last'.item.path)
        /\ last'.op = "readResolved" => text' = last'.txt ]_vars

\* The same with the widget constructed when the event arrives (the case
\* C1 holds in).
OpenOnConstructedEditor ==
    [][ /\ (last'.event = "open-file" /\ editor')
            => wmode' = getModeForPath(last'.item.path)
        /\ last'.op = "readResolved" => text' = last'.txt ]_vars

\* C2: a save while proc.args.file is unset issues no filesystem call and
\* leaves the buffer, the cursor and the status state unchanged.
C2_SaveWithoutFile ==
    [][ (last'.op \in Saves /\ file' = None)
        => /\ writes' = writes
           /\ reads' = reads
           /\ text' = text
           /\ cursor' = cursor
           /\ state' = state ]_vars

\* A save ran with no file open and a non-empty buffer.
C2_Witness == last.op = "menuSave" /\ file = None /\ text # <<>>

\* C3: a save while a file is open issues exactly one write, to
\* proc.args.file, with the buffer text of that moment as its payload.
C3_SaveWritesBuffer ==
    [][ (last'.op \in Saves /\ file' # None)
        => LET w == [file |-> file', data |-> text]
           IN /\ BagCardinality(writes') = BagCardinality(writes) + 1
              /\ CopiesIn(w, writes') = CopiesIn(w, writes) + 1
              /\ reads' = reads ]_vars

\* A save of a non-empty buffer is in flight right after Save As.
C3_Witness ==
    /\ last.op = "menuSaveAs"
    /\ text # <<>>
    /\ BagIn([file |-> file, data |-> text], writes)

\* C4: right after a changeCursor event the status state equals the
\* widget's live row, column, line count and mode; a step without such an
\* event leaves the status state as it was.
C4_StatusFollowsCursor ==
    [][ IF last'.cursorEv
        THEN Shown(state') = Live'
        ELSE Shown(state') = Shown(state) ]_vars

\* A cursor event on the second line of a Python file was shown.
C4_Witness ==
    /\ last.cursorEv
    /\ state.row = 1
    /\ state.lines = 2
    /\ state.mode = "ace/mode/python"

\* C5: a new-file event empties the buffer and starts no read or write.
C5_NewClearsBuffer ==
    [][ last'.event = "new-file"
        => /\ text' = <<>>
           /\ reads' = reads
           /\ writes' = writes ]_vars

\* New was selected with the cursor away from the origin, that is on a
\* non-empty buffer.
C5_Witness == last.op = "menuNew" /\ last.cursorEv /\ text = <<>>

\* C6 as stated: after a rejected read the buffer is what it was when the
\* load began.
C6_BufferAsBeforeLoad == last.op = "readRejected" => text = last.txt

\* C6 amended: handling a rejected read changes nothing but the set of
\* reads in flight: buffer, cursor, mode, status, writes and the process
\* stay as they were just before the rejection was handled.
C6_RejectionChangesNothing ==
    [][ last'.op = "readRejected"
        => /\ text' = text
           /\ cursor' = cursor
           /\ wmode' = wmode
           /\ state' = state
           /\ file' = file
           /\ writes' = writes
           /\ BagCardinality(reads') = BagCardinality(reads) - 1
           /\ destroyed' = destroyed ]_vars

\* A read was rejected after the buffer had changed since its load began.
C6_Witness == last.op = "readRejected" /\ text # last.txt

\* C7: at most one filesystem request is in flight.
C7_AtMostOneInFlight == InFlight <= 1

\* C8: Quit and the main window's destruction destroy the process, a
\* destroyed process has its helper destroyed, and a destroyed process stays
\* destroyed.
C8_Destruction ==
    [][ /\ last'.op \in {"menuQuit", "winDestroy"} => destroyed'
        /\ destroyed' => basicDestroyed'
        /\ destroyed => destroyed' ]_vars

\* Quit was selected while a request was in flight.
C8_Witness ==
    /\ last.op = "menuQuit"
    /\ destroyed
    /\ basicDestroyed
    /\ InFlight > 0

\* C9: with no read in flight, after files were opened and every read
\* succeeded, the buffer holds the text of the file opened last and the
\* widget's mode is that file's.
C9_BufferAndModeOfLastOpened ==
    (reads = EmptyBag /\ ~failed /\ lastOpened # None /\ textOf # None)
    => /\ textOf = lastOpened
       /\ wmode = getModeForPath(textOf.path)

\* C10: the editor is constructed at most once, basic.init runs once with
\* each construction, and no handler calls the widget before it exists.
C10_WidgetBeforeUse ==
    /\ constructs <= 1
    /\ inits = constructs
    /\ ~last.threw

====
